---- MODULE Spec2Model ----
(***************************************************************************)
(* Model of the SpiritIslandTracker component (src/src/SpiritIslandTracker *)
(* .tsx, the version with adversaries, lines 364-1118).                    *)
(*                                                                         *)
(* The component holds four pieces of React state (plays, spirits,         *)
(* adversaries, sortConfig).  Three fetches fill the first three; every    *)
(* state change re-renders the component, and a render recomputes all      *)
(* statistics and recommendations from scratch.  An action of this model   *)
(* is one state change together with the render it triggers.               *)
(*                                                                         *)
(* Encodings.                                                              *)
(*   - A date string of the play log ("2024-03-15") is a day number >= 1;  *)
(*     `new Date(s)` is ParseDate(s), the instant of that day's midnight   *)
(*     on a clock with two ticks per day, so that the render's clock       *)
(*     (`new Date()`) can fall on a midnight or between two midnights.     *)
(*   - null / undefined of a date is Null (0), which is falsy like null.   *)
(*   - An optional number (Play.level) is <<>> when absent, <<n>> else.    *)
(*   - An absent Play.adversary is the empty string (both are falsy).      *)
(*   - A JavaScript object used as a dictionary is a function on its own   *)
(*     keys; a lookup of a key that is not an own key falls through to     *)
(*     Object.prototype (ObjectPrototypeKeys).                             *)
(***************************************************************************)
EXTENDS Integers, Sequences, FiniteSets, TLC

\* ----------------------------------------------------------------- bounds
\* Longest play log that a fetch delivers.
MaxPlays == 2
\* Play dates are the days 1..MaxDate.
MaxDate == 2

\* ------------------------------------------------------------ JS encodings
Null == 0

ParseDate(s) == 2 * s

Range(seq) == {seq[i] : i \in 1..Len(seq)}

\* Names every object inherits from Object.prototype: `obj[name]` is a
\* function (truthy) for these even when obj = {}.
ObjectPrototypeKeys == {"constructor"}

\* The empty dictionary {}.
EmptyObject == [k \in {} |-> Null]

\* ------------------------------------------------------------ uniquePlayers
AllowList == <<"A", "E">>

NamesPlayer(ps, p) ==
    \E i \in 1..Len(ps) : \E j \in 1..Len(ps[i].players) : ps[i].players[j].player = p

\* Faulty variant: the filter keeps "A" only.
uniquePlayersMutant(ps) == SelectSeq(<<"A">>, LAMBDA p : NamesPlayer(ps, p))
\* Distinct players of the log, filtered to "A" / "E", sorted: the allow-list
\* (already in sorted order) restricted to the players the log names.
uniquePlayers(ps) == SelectSeq(AllowList, LAMBDA p : NamesPlayer(ps, p))

\* ----------------------------------------------------------- buildPlayStats
SpiritNames(sp) == {sp[i].spirit : i \in 1..Len(sp)}

\* stats[spirit.spirit] = {...} in catalog order: a later catalog entry of the
\* same name overwrites an earlier one.
LastSpiritNamed(sp, n) ==
    sp[CHOOSE i \in 1..Len(sp) :
          sp[i].spirit = n /\ \A j \in (i + 1)..Len(sp) : sp[j].spirit # n]

ZeroPlayerStats(players) ==
    [p \in Range(players) |-> [plays |-> 0, lastPlayed |-> Null]]

InitPlayStats(sp, players) ==
    [n \in SpiritNames(sp) |->
        [spirit |-> LastSpiritNamed(sp, n), playerStats |-> ZeroPlayerStats(players)]]

\* Faulty variant: the comparison is reversed.
LaterDateMutant(date, cur) == cur = Null \/ ParseDate(date) < ParseDate(cur)
\* `!currentLastPlayed || playDate > new Date(currentLastPlayed)`
LaterDate(date, cur) == cur = Null \/ ParseDate(date) > ParseDate(cur)

\* Faulty variant: plays is set to 1 instead of being incremented.
BumpMutant(cell, date) ==
    [plays |-> IF cell.plays = 0 THEN 1 ELSE cell.plays,
     lastPlayed |-> IF LaterDate(date, cell.lastPlayed) THEN date ELSE cell.lastPlayed]
\* plays += 1 and the max-by-date update of lastPlayed.
Bump(cell, date) ==
    [plays |-> cell.plays + 1,
     lastPlayed |-> IF LaterDate(date, cell.lastPlayed) THEN date ELSE cell.lastPlayed]

\* One step of play.players.forEach.  acc = [threw, stats]; threw records the
\* TypeError of reading `.playerStats[player]` of an inherited member.
CountPlayer(acc, date, pl) ==
    IF acc.threw THEN acc
    ELSE IF pl.spirit \in DOMAIN acc.stats
    THEN IF pl.player \in DOMAIN acc.stats[pl.spirit].playerStats
         THEN [acc EXCEPT !.stats[pl.spirit].playerStats[pl.player] = Bump(@, date)]
         ELSE acc
    ELSE IF pl.spirit \in ObjectPrototypeKeys
    THEN [acc EXCEPT !.threw = TRUE]
    ELSE acc

RECURSIVE CountPlayers(_, _, _, _)
CountPlayers(acc, date, pls, j) ==
    IF j > Len(pls) THEN acc
    ELSE CountPlayers(CountPlayer(acc, date, pls[j]), date, pls, j + 1)

RECURSIVE CountPlays(_, _, _)
CountPlays(acc, ps, i) ==
    IF i > Len(ps) THEN acc
    ELSE CountPlays(CountPlayers(acc, ps[i].date, ps[i].players, 1), ps, i + 1)

\* [threw |-> the call raised a TypeError, stats |-> the returned object]
buildPlayStats(ps, sp) ==
    CountPlays([threw |-> FALSE, stats |-> InitPlayStats(sp, uniquePlayers(ps))], ps, 1)

\* ------------------------------------------------------ buildAdversaryStats
AdversaryNames(advs) == {advs[i].Adversary : i \in 1..Len(advs)}

LastAdversaryNamed(advs, n) ==
    advs[CHOOSE i \in 1..Len(advs) :
            advs[i].Adversary = n /\ \A j \in (i + 1)..Len(advs) : advs[j].Adversary # n]

DeclaredLevels(adv) == {adv.Levels[i].Level : i \in 1..Len(adv.Levels)}

\* The Levels entry that adversary.Levels.forEach writes last for level l.
LastLevelEntry(adv, l) ==
    adv.Levels[CHOOSE i \in 1..Len(adv.Levels) :
                  adv.Levels[i].Level = l
                  /\ \A j \in (i + 1)..Len(adv.Levels) : adv.Levels[j].Level # l]

\* Faulty variant: the base level 0 gets no entry.
StatLevelsMutant(adv) == DeclaredLevels(adv)
\* The keys of stats[adversary.Adversary]: 0 and every declared level.
StatLevels(adv) == {0} \cup DeclaredLevels(adv)

InitLevelStats(adv) ==
    [l \in StatLevels(adv) |->
        [plays |-> 0,
         lastPlayed |-> Null,
         difficulty |-> IF l \in DeclaredLevels(adv)
                        THEN LastLevelEntry(adv, l).Difficulty
                        ELSE adv.BaseDifficulty]]

InitAdversaryStats(advs) ==
    [n \in AdversaryNames(advs) |-> InitLevelStats(LastAdversaryNamed(advs, n))]

\* Faulty variant: a record with no level counts as level 1.
PlayLevelMutant(play) == IF play.level # <<>> THEN play.level[1] ELSE 1
\* `play.level !== undefined ? Number(play.level) : 0`
PlayLevel(play) == IF play.level # <<>> THEN play.level[1] ELSE 0

\* plays += 1 and the max-by-date update of a level's lastPlayed.
BumpLevel(cell, date) ==
    [plays |-> cell.plays + 1,
     lastPlayed |-> IF LaterDate(date, cell.lastPlayed) THEN date ELSE cell.lastPlayed,
     difficulty |-> cell.difficulty]

\* One step of plays.forEach in buildAdversaryStats.  stats["constructor"] is
\* the inherited Object function, whose [level] member is undefined: skipped.
CountAdversary(stats, play) ==
    IF play.adversary # "" /\ play.adversary \in DOMAIN stats
    THEN IF PlayLevel(play) \in DOMAIN stats[play.adversary]
         THEN [stats EXCEPT ![play.adversary][PlayLevel(play)] = BumpLevel(@, play.date)]
         ELSE stats
    ELSE stats

RECURSIVE CountAdversaries(_, _, _)
CountAdversaries(stats, ps, i) ==
    IF i > Len(ps) THEN stats
    ELSE CountAdversaries(CountAdversary(stats, ps[i]), ps, i + 1)

buildAdversaryStats(ps, advs) == CountAdversaries(InitAdversaryStats(advs), ps, 1)

\* ----------------------------------------------- getAdversaryRecommendation
\* The last level the scan `for (let i = 0; i <= 6; i++)` visits, which is
\* also the cap of the suggested level.
TopLevel == 6

Max(a, b) == IF a >= b THEN a ELSE b
Min(a, b) == IF a <= b THEN a ELSE b

\* One iteration of the scan: acc = [highestLevelPlayed, mostRecentDate].
\* `adversaryStats[name]?.[i]` is undefined for a level with no entry.
ScanLevel(acc, levels, i) ==
    IF i \notin DOMAIN levels THEN acc
    ELSE IF levels[i].plays > 0
    THEN [highestLevelPlayed |-> Max(acc.highestLevelPlayed, i),
          mostRecentDate |->
              IF levels[i].lastPlayed # Null
                 /\ (acc.mostRecentDate = Null
                     \/ ParseDate(levels[i].lastPlayed) > ParseDate(acc.mostRecentDate))
              THEN levels[i].lastPlayed
              ELSE acc.mostRecentDate]
    ELSE acc

RECURSIVE ScanLevels(_, _, _)
ScanLevels(acc, levels, i) ==
    IF i > TopLevel THEN acc ELSE ScanLevels(ScanLevel(acc, levels, i), levels, i + 1)

\* Faulty variant: the suggested level is not capped.
NextLevelMutant(highest) == highest + 1
\* Math.min(highestLevelPlayed + 1, 6)
NextLevel(highest) == Min(highest + 1, TopLevel)

\* Faulty variant: the declared levels are not looked up.
LevelDifficultyMutant(adv, level) == adv.BaseDifficulty
\* adversary.Levels.find(lvl => Number(lvl.Level) === nextLevel): the first match.
LevelDifficulty(adv, level) ==
    IF level = 0 THEN adv.BaseDifficulty
    ELSE IF \E i \in 1..Len(adv.Levels) : adv.Levels[i].Level = level
    THEN adv.Levels[CHOOSE i \in 1..Len(adv.Levels) :
                       adv.Levels[i].Level = level
                       /\ \A j \in 1..(i - 1) : adv.Levels[j].Level # level].Difficulty
    ELSE adv.BaseDifficulty

\* The entry pushed for one adversary.  aStats[name] always exists for a
\* catalog adversary, so the optional chaining never short-circuits here.
AdversaryRecommendation(adv, aStats) ==
    LET scan == ScanLevels([highestLevelPlayed |-> -1, mostRecentDate |-> Null],
                           aStats[adv.Adversary], 0)
        next == NextLevel(scan.highestLevelPlayed)
    IN [adversary |-> adv.Adversary,
        level |-> next,
        difficulty |-> LevelDifficulty(adv, next),
        lastPlayed |-> scan.mostRecentDate,
        reason |-> IF scan.mostRecentDate # Null THEN "Last played" ELSE "Never played"]

\* Faulty variant: played adversaries are ordered newest first.
CompareRecommendationsMutant(a, b) ==
    IF a.lastPlayed = Null /\ b.lastPlayed = Null THEN 0
    ELSE IF a.lastPlayed = Null THEN -1
    ELSE IF b.lastPlayed = Null THEN 1
    ELSE ParseDate(b.lastPlayed) - ParseDate(a.lastPlayed)
\* The comparator of recommendations.sort: negative, zero or positive.
CompareRecommendations(a, b) ==
    IF a.lastPlayed = Null /\ b.lastPlayed = Null THEN 0
    ELSE IF a.lastPlayed = Null THEN -1
    ELSE IF b.lastPlayed = Null THEN 1
    ELSE ParseDate(a.lastPlayed) - ParseDate(b.lastPlayed)

\* Array.prototype.sort is stable: x goes after every element that does not
\* compare greater than it.
RECURSIVE InsertSorted(_, _)
InsertSorted(sorted, x) ==
    IF sorted = <<>> THEN <<x>>
    ELSE IF CompareRecommendations(sorted[Len(sorted)], x) > 0
    THEN Append(InsertSorted(SubSeq(sorted, 1, Len(sorted) - 1), x), sorted[Len(sorted)])
    ELSE Append(sorted, x)

RECURSIVE SortRecommendations(_, _)
SortRecommendations(recs, n) ==
    IF n = 0 THEN <<>> ELSE InsertSorted(SortRecommendations(recs, n - 1), recs[n])

getAdversaryRecommendation(advs, aStats) ==
    SortRecommendations([i \in 1..Len(advs) |-> AdversaryRecommendation(advs[i], aStats)],
                        Len(advs))

\* ------------------------------------------------------- getRecommendations
complexityLevels == <<"LOW", "MODERATE", "HIGH", "VERY HIGH">>

ComplexitySpirits(sp, c) == SelectSeq(sp, LAMBDA s : s.complexity = c)

\* Faulty variant: a spirit played once still counts as unplayed.
UnplayedSpiritsMutant(sp, pStats, p, c) ==
    SelectSeq(ComplexitySpirits(sp, c),
              LAMBDA s : pStats[s.spirit].playerStats[p].plays <= 1)

UnplayedSpirits(sp, pStats, p, c) ==
    SelectSeq(ComplexitySpirits(sp, c),
              LAMBDA s : pStats[s.spirit].playerStats[p].plays = 0)

\* One step of complexitySpirits.forEach: acc = [oldestPlayedSpirit, oldestDate],
\* oldestPlayedSpirit being <<>> for null.
OlderSpirit(acc, s, pStats, p) ==
    LET lastPlayed == pStats[s.spirit].playerStats[p].lastPlayed
    IN IF lastPlayed # Null /\ ParseDate(lastPlayed) < acc.oldestDate
       THEN [oldestPlayedSpirit |-> <<s>>, oldestDate |-> ParseDate(lastPlayed)]
       ELSE acc

RECURSIVE OldestSpirit(_, _, _, _, _)
OldestSpirit(acc, members, pStats, p, i) ==
    IF i > Len(members) THEN acc
    ELSE OldestSpirit(OlderSpirit(acc, members[i], pStats, p), members, pStats, p, i + 1)

\* The body of complexityLevels.forEach for one player: <<>> when nothing is
\* assigned to recommendations[player][complexity], <<entry>> otherwise.
\* t is `new Date()`, index is Math.floor(Math.random() * unplayedSpirits.length).
Recommend(sp, pStats, p, c, t, index) ==
    LET unplayed == UnplayedSpirits(sp, pStats, p, c)
        oldest == OldestSpirit([oldestPlayedSpirit |-> <<>>, oldestDate |-> t],
                               ComplexitySpirits(sp, c), pStats, p, 1)
    IN IF Len(unplayed) > 0
       THEN <<[spirit |-> unplayed[index + 1], reason |-> "Never played", date |-> Null]>>
       ELSE IF oldest.oldestPlayedSpirit # <<>>
       THEN <<[spirit |-> oldest.oldestPlayedSpirit[1],
               reason |-> "Last played",
               date |-> oldest.oldestDate]>>
       ELSE <<>>

\* The (player, complexity) pairs for which Math.random() is called.
RandomCalls(sp, players, pStats) ==
    {k \in Range(players) \X Range(complexityLevels) :
        Len(UnplayedSpirits(sp, pStats, k[1], k[2])) > 0}

\* Every outcome of the calls of Math.floor(Math.random() * length): an index
\* in 0..length-1 for each call.
RandomIndexes(sp, players, pStats) ==
    {draw \in [RandomCalls(sp, players, pStats) -> 0..(Len(sp) - 1)] :
        \A k \in DOMAIN draw : draw[k] < Len(UnplayedSpirits(sp, pStats, k[1], k[2]))}

DrawOf(draw, p, c) == IF <<p, c>> \in DOMAIN draw THEN draw[<<p, c>>] ELSE 0

getRecommendations(sp, players, pStats, t, draw) ==
    [p \in Range(players) |->
        [c \in {x \in Range(complexityLevels) :
                   Recommend(sp, pStats, p, x, t, DrawOf(draw, p, x)) # <<>>} |->
            Recommend(sp, pStats, p, c, t, DrawOf(draw, p, c))[1]]]

\* ----------------------------------------------------------------- handleSort
\* Faulty variant: the current key is not compared with the selected one.
handleSortMutant(cfg, key) ==
    IF cfg # <<>> /\ cfg[1].direction = "asc"
    THEN <<[key |-> key, direction |-> "desc"]>>
    ELSE <<[key |-> key, direction |-> "asc"]>>

\* sortConfig is <<>> for null, <<[key, direction]>> otherwise.
handleSort(cfg, key) ==
    IF cfg # <<>> /\ cfg[1].key = key /\ cfg[1].direction = "asc"
    THEN <<[key |-> key, direction |-> "desc"]>>
    ELSE <<[key |-> key, direction |-> "asc"]>>

\* ---------------------------------------------------------- sortedPlayStats
\* Object.values(playStats): one row per key, in the order in which the keys
\* were first assigned, which is the catalog order of their first occurrence.
ObjectValues(sp, pStats) ==
    LET first == SelectSeq([i \in 1..Len(sp) |-> i],
                           LAMBDA i : \A j \in 1..(i - 1) : sp[j].spirit # sp[i].spirit)
    IN [k \in 1..Len(first) |-> pStats[sp[first[k]].spirit]]

\* The key of a participant's column: `player-${player}-plays` and
\* `player-${player}-lastPlayed`.
PlayerSortKey(player, statKey) == "player-" \o player \o "-" \o statKey

StatKeys == {"plays", "lastPlayed"}

\* sortConfig.key.startsWith("player-")
StartsWithPlayer(key) ==
    \E p \in Range(AllowList), k \in StatKeys : key = PlayerSortKey(p, k)

\* sortConfig.key.split("-")[1] and [2]
SplitKey(key) ==
    CHOOSE pk \in Range(AllowList) \X StatKeys : key = PlayerSortKey(pk[1], pk[2])

\* a.playerStats[playerKey]?.[statKey] || (statKey === "plays" ? 0 : ""): a
\* zero count stays 0; a null date becomes "", which is below every date string
\* as Null is below every day number.
SortValue(row, playerKey, statKey) ==
    IF playerKey \in DOMAIN row.playerStats /\ row.playerStats[playerKey][statKey] # Null
    THEN row.playerStats[playerKey][statKey]
    ELSE IF statKey = "plays" THEN 0 ELSE Null

\* The strings of the catalogs in the order of the < operator on strings.
StringOrder ==
    <<"HIGH", "LOW", "MODERATE", "Ocean", "River", "Shadows", "VERY HIGH">>

StringRank(str) == CHOOSE i \in 1..Len(StringOrder) : StringOrder[i] = str

\* Faulty variant: the direction is ignored.
CompareRowsMutant(a, b, cfg) ==
    IF StartsWithPlayer(cfg.key)
    THEN LET aValue == SortValue(a, SplitKey(cfg.key)[1], SplitKey(cfg.key)[2])
             bValue == SortValue(b, SplitKey(cfg.key)[1], SplitKey(cfg.key)[2])
         IN IF aValue < bValue THEN -1 ELSE IF aValue > bValue THEN 1 ELSE 0
    ELSE LET aValue == StringRank(a.spirit[cfg.key])
             bValue == StringRank(b.spirit[cfg.key])
         IN IF aValue < bValue THEN -1 ELSE IF aValue > bValue THEN 1 ELSE 0

\* The comparator of sortableItems.sort.
CompareRows(a, b, cfg) ==
    IF StartsWithPlayer(cfg.key)
    THEN LET aValue == SortValue(a, SplitKey(cfg.key)[1], SplitKey(cfg.key)[2])
             bValue == SortValue(b, SplitKey(cfg.key)[1], SplitKey(cfg.key)[2])
         IN IF aValue < bValue THEN (IF cfg.direction = "asc" THEN -1 ELSE 1)
            ELSE IF aValue > bValue THEN (IF cfg.direction = "asc" THEN 1 ELSE -1)
            ELSE 0
    ELSE LET aValue == StringRank(a.spirit[cfg.key])
             bValue == StringRank(b.spirit[cfg.key])
         IN IF aValue < bValue THEN (IF cfg.direction = "asc" THEN -1 ELSE 1)
            ELSE IF aValue > bValue THEN (IF cfg.direction = "asc" THEN 1 ELSE -1)
            ELSE 0

\* Array.prototype.sort is stable.
RECURSIVE InsertRow(_, _, _)
InsertRow(sorted, x, cfg) ==
    IF sorted = <<>> THEN <<x>>
    ELSE IF CompareRows(sorted[Len(sorted)], x, cfg) > 0
    THEN Append(InsertRow(SubSeq(sorted, 1, Len(sorted) - 1), x, cfg), sorted[Len(sorted)])
    ELSE Append(sorted, x)

RECURSIVE SortRows(_, _, _)
SortRows(rows, n, cfg) ==
    IF n = 0 THEN <<>> ELSE InsertRow(SortRows(rows, n - 1, cfg), rows[n], cfg)

SortedPlayStats(sp, pStats, cfg) ==
    IF cfg = <<>> THEN ObjectValues(sp, pStats)
    ELSE SortRows(ObjectValues(sp, pStats), Len(ObjectValues(sp, pStats)), cfg[1])

\* ------------------------------------------------------------------ Summary
\* Faulty variant: a played spirit counts once, whatever its number of plays.
PlaysOfMutant(row, player) ==
    IF player \in DOMAIN row.playerStats /\ row.playerStats[player].plays > 0 THEN 1 ELSE 0
\* playerStats[player]?.plays || 0
PlaysOf(row, player) ==
    IF player \in DOMAIN row.playerStats THEN row.playerStats[player].plays ELSE 0

\* Object.values(playStats).reduce((total, ...) => total + ..., 0)
RECURSIVE playerTotalPlays(_, _, _)
playerTotalPlays(rows, n, player) ==
    IF n = 0 THEN 0 ELSE playerTotalPlays(rows, n - 1, player) + PlaysOf(rows[n], player)

\* Faulty variant: a row with as many plays replaces the one kept so far.
MorePlaysMutant(plays_, most) == plays_ >= most.plays
\* plays > (most?.plays || 0)
MorePlays(plays_, most) == plays_ > most.plays

\* Object.values(playStats).reduce((most, ...) => ..., {spirit: "", plays: 0})
RECURSIVE mostPlayedSpirit(_, _, _)
mostPlayedSpirit(rows, n, player) ==
    IF n = 0 THEN [spirit |-> "", plays |-> 0]
    ELSE LET most == mostPlayedSpirit(rows, n - 1, player)
         IN IF MorePlays(PlaysOf(rows[n], player), most)
            THEN [spirit |-> rows[n].spirit.spirit, plays |-> PlaysOf(rows[n], player)]
            ELSE most

\* The summary card of each of uniquePlayers; the favorite line is displayed
\* only when mostPlayedSpirit.plays > 0.
Summary(sp, players, pStats) ==
    LET rows == ObjectValues(sp, pStats)
    IN [p \in Range(players) |->
           [playerTotalPlays |-> playerTotalPlays(rows, Len(rows), p),
            mostPlayedSpirit |-> mostPlayedSpirit(rows, Len(rows), p),
            showsFavorite |-> mostPlayedSpirit(rows, Len(rows), p).plays > 0]]

\* ------------------------------------------------------------------ the state
VARIABLES
    plays,                    \* useState<Play[]>([])
    spirits,                  \* useState<Spirit[]>([])
    adversaries,              \* useState<Adversary[]>([])
    sortConfig,               \* useState<...>(null)
    fetched,                  \* each fetch: "pending", "done" or "failed"
    now,                      \* the clock, as read by the last render
    crashed,                  \* the last render threw: nothing is displayed any more
    playStats,                \* the last render's buildPlayStats()
    adversaryStats,           \* the last render's buildAdversaryStats()
    recommendations,          \* the last render's getRecommendations()
    adversaryRecommendations, \* the last render's getAdversaryRecommendation()
    sortedPlayStats,          \* the last render's sortedPlayStats
    summary                   \* the last render's summary cards

inputs == <<plays, spirits, adversaries, sortConfig, fetched>>
rendered == <<now, crashed, playStats, adversaryStats, recommendations,
              adversaryRecommendations, sortedPlayStats, summary>>
vars == <<inputs, rendered>>

\* One execution of the component function over the state (ps, sp, advs).  The
\* clock is read at a moment of Clock not before the previous reading.  A
\* TypeError in buildPlayStats ends the render before anything else is computed.
Render(ps, sp, advs, cfg, Clock) ==
    LET built == buildPlayStats(ps, sp)
        aStats == buildAdversaryStats(ps, advs)
    IN IF built.threw
       THEN /\ crashed' = TRUE
            /\ now' = now
            /\ playStats' = EmptyObject
            /\ adversaryStats' = EmptyObject
            /\ recommendations' = EmptyObject
            /\ adversaryRecommendations' = <<>>
            /\ sortedPlayStats' = <<>>
            /\ summary' = EmptyObject
       ELSE /\ crashed' = FALSE
            /\ playStats' = built.stats
            /\ adversaryStats' = aStats
            /\ adversaryRecommendations' = getAdversaryRecommendation(advs, aStats)
            /\ sortedPlayStats' = SortedPlayStats(sp, built.stats, cfg)
            /\ summary' = Summary(sp, uniquePlayers(ps), built.stats)
            /\ \E t \in Clock :
                  /\ t >= now
                  /\ now' = t
                  /\ \E draw \in RandomIndexes(sp, uniquePlayers(ps), built.stats) :
                        recommendations' =
                            getRecommendations(sp, uniquePlayers(ps), built.stats, t, draw)

\* The first render, over the empty state.
InitOn(Clock) ==
    /\ plays = <<>>
    /\ spirits = <<>>
    /\ adversaries = <<>>
    /\ sortConfig = <<>>
    /\ fetched = [f \in {"plays", "spirits", "adversaries"} |-> "pending"]
    /\ now \in Clock
    /\ crashed = FALSE
    /\ playStats = EmptyObject
    /\ adversaryStats = EmptyObject
    /\ recommendations = EmptyObject
    /\ adversaryRecommendations = <<>>
    /\ sortedPlayStats = <<>>
    /\ summary = EmptyObject

\* fetch("plays.json") resolves: setPlays(data) and the render it triggers.
PlaysFetched(data, Clock) ==
    /\ fetched["plays"] = "pending"
    /\ ~crashed
    /\ plays' = data
    /\ fetched' = [fetched EXCEPT !["plays"] = "done"]
    /\ UNCHANGED <<spirits, adversaries, sortConfig>>
    /\ Render(data, spirits, adversaries, sortConfig, Clock)

\* fetch("spirits.json") resolves.
SpiritsFetched(data, Clock) ==
    /\ fetched["spirits"] = "pending"
    /\ ~crashed
    /\ spirits' = data
    /\ fetched' = [fetched EXCEPT !["spirits"] = "done"]
    /\ UNCHANGED <<plays, adversaries, sortConfig>>
    /\ Render(plays, data, adversaries, sortConfig, Clock)

\* fetch("adversaries.json") resolves.
AdversariesFetched(data, Clock) ==
    /\ fetched["adversaries"] = "pending"
    /\ ~crashed
    /\ adversaries' = data
    /\ fetched' = [fetched EXCEPT !["adversaries"] = "done"]
    /\ UNCHANGED <<plays, spirits, sortConfig>>
    /\ Render(plays, spirits, data, sortConfig, Clock)

\* A fetch rejects: .catch logs the error; no state changes, nothing renders.
FetchFailed(f) ==
    /\ fetched[f] = "pending"
    /\ fetched' = [fetched EXCEPT ![f] = "failed"]
    /\ UNCHANGED <<plays, spirits, adversaries, sortConfig, rendered>>

\* A click on a column header: handleSort(key) and the render it triggers.
HandleSort(key, Clock) ==
    /\ ~crashed
    /\ sortConfig' = handleSort(sortConfig, key)
    /\ UNCHANGED <<plays, spirits, adversaries, fetched>>
    /\ Render(plays, spirits, adversaries, handleSort(sortConfig, key), Clock)

\* ------------------------------------------------------------------ the inputs
Pair(p, s) == [player |-> p, spirit |-> s]

Play(d, pls, a, l) == [date |-> d, players |-> pls, adversary |-> a, level |-> l]

Dates == 1..MaxDate

\* The clock readings: every midnight of a play date and the moments before,
\* between and after them.
Moments == 1..(ParseDate(MaxDate) + 1)

SeqsUpTo(S, n) == UNION {[1..k -> S] : k \in 0..n}

River == [spirit |-> "River", complexity |-> "LOW"]
Shadows == [spirit |-> "Shadows", complexity |-> "LOW"]
Ocean == [spirit |-> "Ocean", complexity |-> "HIGH"]

Prussia ==
    [Adversary |-> "Prussia", BaseDifficulty |-> 1,
     Levels |-> <<[Level |-> 1, Difficulty |-> 2], [Level |-> 3, Difficulty |-> 6]>>]
England ==
    [Adversary |-> "England", BaseDifficulty |-> 1,
     Levels |-> <<[Level |-> 1, Difficulty |-> 3], [Level |-> 2, Difficulty |-> 4]>>]

\* --------------------------------------- the aggregation (SpecStats)
\* buildPlayStats reads a record's date and players, buildAdversaryStats its
\* date, adversary and level.  "J" is a player outside the allow-list; "River"
\* is absent from the second spirit catalog and "England" from the first
\* adversary catalog; "constructor" names no spirit of any catalog.
StatsShapes ==
    {<<<<Pair("A", "River")>>, "Prussia", <<>>>>,
     <<<<Pair("A", "Shadows"), Pair("E", "River")>>, "England", <<1>>>>,
     <<<<Pair("J", "River")>>, "Prussia", <<0>>>>,
     <<<<Pair("A", "constructor")>>, "", <<>>>>,
     <<<<Pair("A", "River"), Pair("A", "River")>>, "Prussia", <<1>>>>}

StatsRecords == {Play(d, x[1], x[2], x[3]) : d \in Dates, x \in StatsShapes}

StatsLogs == SeqsUpTo(StatsRecords, MaxPlays)
StatsSpiritCatalogs == {<<River, Shadows>>, <<Shadows>>}
StatsAdversaryCatalogs == {<<Prussia>>, <<England, Prussia>>}
\* The aggregation does not read the clock: one reading, after every play.
StatsClock == {ParseDate(MaxDate) + 1}

InitStats == InitOn(StatsClock)

NextStats ==
    \/ \E data \in StatsLogs : PlaysFetched(data, StatsClock)
    \/ \E data \in StatsSpiritCatalogs : SpiritsFetched(data, StatsClock)
    \/ \E data \in StatsAdversaryCatalogs : AdversariesFetched(data, StatsClock)

SpecStats == InitStats /\ [][NextStats]_vars

\* ------------------------------- the spirit recommendations (SpecSpirits)
\* River and Shadows share the tier LOW, in either catalog order; Ocean, which
\* only E plays, is the only HIGH spirit and is absent from the first catalog;
\* no catalog has a MODERATE or a VERY HIGH spirit.  The clock is read at any
\* moment, before or after the plays.
SpiritsShapes ==
    {<<Pair("A", "River")>>, <<Pair("A", "Shadows")>>, <<Pair("E", "Ocean")>>}

SpiritsRecords == {Play(d, x, "", <<>>) : d \in Dates, x \in SpiritsShapes}

SpiritsLogs == SeqsUpTo(SpiritsRecords, MaxPlays)
SpiritsSpiritCatalogs == {<<River, Shadows>>, <<Shadows, River, Ocean>>}
SpiritsAdversaryCatalogs == {<<Prussia>>}

InitSpirits == InitOn(Moments)

NextSpirits ==
    \/ \E data \in SpiritsLogs : PlaysFetched(data, Moments)
    \/ \E data \in SpiritsSpiritCatalogs : SpiritsFetched(data, Moments)
    \/ \E data \in SpiritsAdversaryCatalogs : AdversariesFetched(data, Moments)

SpecSpirits == InitSpirits /\ [][NextSpirits]_vars

\* --------------------------- the adversary recommendations (SpecAdversaries)
\* Sweden declares the levels 5, 6 and 7, the last beyond the scan of 0..6.
Sweden ==
    [Adversary |-> "Sweden", BaseDifficulty |-> 1,
     Levels |-> <<[Level |-> 5, Difficulty |-> 7], [Level |-> 6, Difficulty |-> 8],
                  [Level |-> 7, Difficulty |-> 9]>>]

AdversariesShapes ==
    {<<"Prussia", <<>>>>, <<"Prussia", <<1>>>>, <<"Prussia", <<2>>>>,
     <<"Sweden", <<5>>>>, <<"Sweden", <<6>>>>, <<"Sweden", <<7>>>>}

AdversariesRecords ==
    {Play(d, <<Pair("A", "River")>>, x[1], x[2]) : d \in Dates, x \in AdversariesShapes}

AdversariesLogs == SeqsUpTo(AdversariesRecords, MaxPlays)
AdversariesSpiritCatalogs == {<<River>>}
AdversariesAdversaryCatalogs == {<<Prussia, Sweden>>, <<Sweden, Prussia>>}

InitAdversaries == InitOn(StatsClock)

NextAdversaries ==
    \/ \E data \in AdversariesLogs : PlaysFetched(data, StatsClock)
    \/ \E data \in AdversariesSpiritCatalogs : SpiritsFetched(data, StatsClock)
    \/ \E data \in AdversariesAdversaryCatalogs : AdversariesFetched(data, StatsClock)

SpecAdversaries == InitAdversaries /\ [][NextAdversaries]_vars

\* -------------------------------------------------- SpecSort: the sorted table
\* The column headers of the table: the spirit's name and two columns for
\* each of uniquePlayers (the headers "complexity" and "source" take the same
\* branch of the comparator as "spirit").
ColumnKeys(ps) ==
    {"spirit"}
        \cup {PlayerSortKey(p, k) : p \in Range(uniquePlayers(ps)), k \in StatKeys}

SortShapes ==
    {<<Pair("A", "River"), Pair("E", "Shadows")>>,
     <<Pair("A", "River"), Pair("A", "Shadows")>>}

SortRecords == {Play(d, sh, "", <<>>) : d \in Dates, sh \in SortShapes}

SortLogs == SeqsUpTo(SortRecords, MaxPlays)

SortSpiritCatalogs == {<<River, Ocean, Shadows>>, <<Shadows, River>>}

SortAdversaryCatalogs == {<<Prussia>>}

InitSort == InitOn(StatsClock)

NextSort ==
    \/ \E data \in SortLogs : PlaysFetched(data, StatsClock)
    \/ \E data \in SortSpiritCatalogs : SpiritsFetched(data, StatsClock)
    \/ \E data \in SortAdversaryCatalogs : AdversariesFetched(data, StatsClock)
    \/ \E key \in ColumnKeys(plays) : HandleSort(key, StatsClock)

SpecSort == InitSort /\ [][NextSort]_vars

\* ------------------------------------- SpecLoad: fetches that resolve or fail
LoadShapes ==
    {<<<<Pair("A", "River")>>, "Prussia", <<1>>>>,
     <<<<Pair("E", "Shadows")>>, "England", <<>>>>,
     <<<<Pair("A", "constructor")>>, "", <<>>>>}

LoadRecords == {Play(d, sh[1], sh[2], sh[3]) : d \in Dates, sh \in LoadShapes}

LoadLogs == SeqsUpTo(LoadRecords, MaxPlays)

LoadSpiritCatalogs == {<<River, Shadows>>}

LoadAdversaryCatalogs == {<<Prussia>>}

InitLoad == InitOn(StatsClock)

NextLoad ==
    \/ \E data \in LoadLogs : PlaysFetched(data, StatsClock)
    \/ \E data \in LoadSpiritCatalogs : SpiritsFetched(data, StatsClock)
    \/ \E data \in LoadAdversaryCatalogs : AdversariesFetched(data, StatsClock)
    \/ \E f \in {"plays", "spirits", "adversaries"} : FetchFailed(f)

SpecLoad == InitLoad /\ [][NextLoad]_vars

\* ---------------------------------------------------- vocabulary of the claims
\* The recognized participants: allow-listed and named by the play log.
Recognized(ps) == {p \in {"A", "E"} : NamesPlayer(ps, p)}

CatalogSpirits == {spirits[i].spirit : i \in 1..Len(spirits)}
CatalogAdversaries == {adversaries[i].Adversary : i \in 1..Len(adversaries)}

\* The places of the log that pair participant p with character c.
PairPlaces(ps, p, c) ==
    {x \in (1..Len(ps)) \X (1..MaxPlays + 2) :
        /\ x[2] <= Len(ps[x[1]].players)
        /\ ps[x[1]].players[x[2]] = Pair(p, c)}

\* The records of the log that contain the pair (p, c).
PairRecords(ps, p, c) == {x[1] : x \in PairPlaces(ps, p, c)}

\* The records of the log that name adversary a at level l (no level: 0).
LevelRecords(ps, a, l) ==
    {i \in 1..Len(ps) :
        /\ ps[i].adversary = a
        /\ (IF ps[i].level = <<>> THEN 0 ELSE ps[i].level[1]) = l}

\* The latest date among records I of the log; none (Null) when I is empty.
LatestDate(ps, I) ==
    IF I = {} THEN Null
    ELSE CHOOSE d \in {ps[i].date : i \in I} : \A i \in I : ps[i].date <= d

\* The log in another order.
Shuffled(ps, f) == [i \in 1..Len(ps) |-> ps[f[i]]]
Shuffles(ps) == {Shuffled(ps, f) : f \in Permutations(1..Len(ps))}

\* ------------------------------------------------------------------------ C1
\* C1 (as stated): after buildPlayStats, the playCount of every catalog
\* character c and recognized participant p is the number of play RECORDS that
\* contain the pair (p, c), in every order of the log.
C1_PlayCountIsRecordCount ==
    ~crashed =>
        \A c \in CatalogSpirits, p \in Recognized(plays) :
            \A log \in Shuffles(plays) :
                buildPlayStats(log, spirits).stats[c].playerStats[p].plays
                    = Cardinality(PairRecords(plays, p, c))

\* C1 (amended): after buildPlayStats, the playCount of every catalog character
\* c and recognized participant p is the number of occurrences of the pair
\* (p, c) in the players lists of the play records (a record that lists the
\* pair twice counts twice), and every ordering of the log gives the same count.
C1_PlayCountIsPairCount ==
    ~crashed =>
        \A c \in CatalogSpirits, p \in Recognized(plays) :
            /\ playStats[c].playerStats[p].plays = Cardinality(PairPlaces(plays, p, c))
            /\ \A log \in Shuffles(plays) :
                  buildPlayStats(log, spirits).stats[c].playerStats[p].plays
                      = playStats[c].playerStats[p].plays

\* A record lists the pair (A, River) twice and River's cell for A counts 2.
C1_Witness ==
    /\ ~crashed
    /\ Len(plays) = 1
    /\ "River" \in CatalogSpirits
    /\ Cardinality(PairPlaces(plays, "A", "River")) = 2
    /\ playStats["River"].playerStats["A"].plays = 2


\* ------------------------------------------------------------------------ C2
\* C2: after aggregation, the lastPlayedDate of every character/participant
\* cell and of every adversary/level cell is the latest date among the play
\* records that contributed to the cell (none when no record contributed), in
\* every order of the log.
C2_LastPlayedIsLatestDate ==
    ~crashed =>
        /\ \A c \in CatalogSpirits, p \in Recognized(plays) :
              /\ playStats[c].playerStats[p].lastPlayed
                     = LatestDate(plays, PairRecords(plays, p, c))
              /\ \A log \in Shuffles(plays) :
                    buildPlayStats(log, spirits).stats[c].playerStats[p].lastPlayed
                        = playStats[c].playerStats[p].lastPlayed
        /\ \A a \in CatalogAdversaries :
              \A l \in DOMAIN adversaryStats[a] :
                 /\ adversaryStats[a][l].lastPlayed
                        = LatestDate(plays, LevelRecords(plays, a, l))
                 /\ \A log \in Shuffles(plays) :
                       buildAdversaryStats(log, adversaries)[a][l].lastPlayed
                           = adversaryStats[a][l].lastPlayed

\* The log's first record is the later of two that contribute to the same
\* character cell and to the same adversary cell.
C2_Witness ==
    /\ ~crashed
    /\ Len(plays) = 2
    /\ plays[1].date > plays[2].date
    /\ \E c \in CatalogSpirits, p \in Recognized(plays) :
          /\ PairRecords(plays, p, c) = {1, 2}
          /\ playStats[c].playerStats[p].lastPlayed = plays[1].date
    /\ \E a \in CatalogAdversaries :
          \E l \in DOMAIN adversaryStats[a] :
             /\ LevelRecords(plays, a, l) = {1, 2}
             /\ adversaryStats[a][l].lastPlayed = plays[1].date

\* ------------------------------------------------------------------------ C3
\* C3: every character of the catalog has a stat entry for every recognized
\* participant, and the entry has playCount 0 and no lastPlayedDate when no
\* play record pairs that participant with that character.
C3_EveryCellExists ==
    ~crashed =>
        \A c \in CatalogSpirits, p \in Recognized(plays) :
            /\ c \in DOMAIN playStats
            /\ p \in DOMAIN playStats[c].playerStats
            /\ PairRecords(plays, p, c) = {}
                   => playStats[c].playerStats[p] = [plays |-> 0, lastPlayed |-> Null]

\* Both participants are recognized, one has played a character of the
\* catalog that the other has not.
C3_Witness ==
    /\ ~crashed
    /\ Recognized(plays) = {"A", "E"}
    /\ \E c \in CatalogSpirits :
          /\ PairRecords(plays, "A", c) # {}
          /\ PairRecords(plays, "E", c) = {}
          /\ playStats[c].playerStats["E"].plays = 0

\* ------------------------------------------------------------------------ C4
\* The log without the j-th pair of its i-th record.
WithoutPair(ps, i, j) ==
    [ps EXCEPT ![i].players =
        SubSeq(@, 1, j - 1) \o SubSeq(@, j + 1, Len(@))]

\* The log with no adversary named by its i-th record.
WithoutAdversary(ps, i) == [ps EXCEPT ![i].adversary = "", ![i].level = <<>>]

\* C4: a play record that names a character absent from the catalog, a
\* participant outside the allow-list or an adversary absent from the catalog
\* raises no error, and the aggregated character and adversary stats are the
\* same as if that reference were removed from the log.
C4_UnknownReferencesIgnored ==
    /\ ~crashed
    /\ \A i \in 1..Len(plays) :
          /\ \A j \in 1..Len(plays[i].players) :
                (plays[i].players[j].spirit \notin CatalogSpirits
                 \/ plays[i].players[j].player \notin {"A", "E"})
                    => buildPlayStats(WithoutPair(plays, i, j), spirits).stats = playStats
          /\ (plays[i].adversary # "" /\ plays[i].adversary \notin CatalogAdversaries)
                => buildAdversaryStats(WithoutAdversary(plays, i), adversaries)
                       = adversaryStats

\* ------------------------------------------------------------------------ C5
\* C5: after buildAdversaryStats, for every catalog adversary a and every
\* level l of its stat map, the playCount of (a, l) is the number of play
\* records that name a at level l, a record with no level counting as level 0;
\* a record counts once whoever played.
C5_LevelCountIsRecordCount ==
    ~crashed =>
        \A a \in CatalogAdversaries :
            \A l \in DOMAIN adversaryStats[a] :
                adversaryStats[a][l].plays = Cardinality(LevelRecords(plays, a, l))

\* A record with no level and a record of level 0 name the same adversary,
\* whose level 0 counts both.
C5_Witness ==
    /\ ~crashed
    /\ \E a \in CatalogAdversaries :
          /\ \E i \in 1..Len(plays) : plays[i].adversary = a /\ plays[i].level = <<>>
          /\ \E i \in 1..Len(plays) : plays[i].adversary = a /\ plays[i].level = <<0>>
          /\ adversaryStats[a][0].plays = 2

\* ------------------------------------------------------------------------ C6
HighestDeclared(adv) ==
    IF DeclaredLevels(adv) = {} THEN 0
    ELSE CHOOSE l \in DeclaredLevels(adv) : \A m \in DeclaredLevels(adv) : m <= l

\* C6 (as stated): every adversary of the catalog has a stat entry for every
\* level from 0 to its highest declared level.
C6_EveryLevelUpToHighest ==
    ~crashed =>
        \A i \in 1..Len(adversaries) :
            \A l \in 0..HighestDeclared(adversaries[i]) :
                l \in DOMAIN adversaryStats[adversaries[i].Adversary]

\* C6 (amended): every adversary of the catalog has a stat entry for level 0
\* and for every level its catalog entry declares, and for no other level (a
\* level that the catalog skips below the highest declared one has no entry).
C6_LevelZeroAndDeclaredLevels ==
    ~crashed =>
        \A i \in 1..Len(adversaries) :
            DOMAIN adversaryStats[adversaries[i].Adversary]
                = {0} \cup {adversaries[i].Levels[k].Level :
                               k \in 1..Len(adversaries[i].Levels)}

\* Prussia declares levels 1 and 3: its stat map has an entry for 3, none for 2.
C6_Witness ==
    /\ ~crashed
    /\ \E i \in 1..Len(adversaries) :
          /\ 3 \in DeclaredLevels(adversaries[i])
          /\ 2 \notin DeclaredLevels(adversaries[i])
          /\ 3 \in DOMAIN adversaryStats[adversaries[i].Adversary]
          /\ 2 \notin DOMAIN adversaryStats[adversaries[i].Adversary]

\* ------------------------------------------------------------------------ C7
\* The catalog's members of a tier, in catalog order.
TierMembers(c) == SelectSeq(spirits, LAMBDA s : s.complexity = c)

NeverPlayed(p, s) == PairPlaces(plays, p, s.spirit) = {}

\* C7: for every recognized participant P and every complexity tier in which
\* some catalog member has zero plays by P, the character recommended for
\* (P, tier) is a member of that tier with zero plays by P, whatever the random
\* choice, and its reason is "never played".
C7_UnplayedTierRecommendsUnplayed ==
    ~crashed =>
        \A p \in Recognized(plays), c \in Range(complexityLevels) :
            (\E s \in Range(TierMembers(c)) : NeverPlayed(p, s))
                => /\ c \in DOMAIN recommendations[p]
                   /\ recommendations[p][c].spirit \in Range(TierMembers(c))
                   /\ NeverPlayed(p, recommendations[p][c].spirit)
                   /\ recommendations[p][c].reason = "Never played"

\* One of the two LOW spirits is played by A and the other, never played, is
\* recommended to A, while E, who played neither of two, is recommended the
\* second of them.
C7_Witness ==
    /\ ~crashed
    /\ Recognized(plays) = {"A", "E"}
    /\ Len(TierMembers("LOW")) = 2
    /\ \E s \in Range(TierMembers("LOW")) : ~NeverPlayed("A", s)
    /\ "LOW" \in DOMAIN recommendations["A"]
    /\ NeverPlayed("A", recommendations["A"]["LOW"].spirit)
    /\ \A s \in Range(TierMembers("LOW")) : NeverPlayed("E", s)
    /\ "LOW" \in DOMAIN recommendations["E"]
    /\ recommendations["E"]["LOW"].spirit = TierMembers("LOW")[2]

\* ------------------------------------------------------------------------ C8
\* The last date on which p played s.
LastPlay(p, s) == LatestDate(plays, PairRecords(plays, p, s.spirit))

FullyPlayed(p, c) ==
    /\ TierMembers(c) # <<>>
    /\ \A s \in Range(TierMembers(c)) : ~NeverPlayed(p, s)

\* The first member, in catalog order, among those p played longest ago.
EarliestPlayed(p, c) ==
    LET m == TierMembers(c)
        i == CHOOSE k \in 1..Len(m) :
                /\ \A j \in 1..Len(m) : LastPlay(p, m[k]) <= LastPlay(p, m[j])
                /\ \A j \in 1..(k - 1) : LastPlay(p, m[j]) > LastPlay(p, m[k])
    IN m[i]

\* C8: for every recognized participant P and every tier whose members have
\* all been played by P, the recommended character is the tier member with the
\* earliest lastPlayedDate for P, the first in catalog order among several
\* with that date.
C8_PlayedTierRecommendsEarliest ==
    ~crashed =>
        \A p \in Recognized(plays), c \in Range(complexityLevels) :
            FullyPlayed(p, c)
                => /\ c \in DOMAIN recommendations[p]
                   /\ recommendations[p][c].spirit = EarliestPlayed(p, c)

\* C8, for the renders that take place after the midnight of every play date:
\* the recommendation of a fully played tier is its earliest played member,
\* the first in catalog order among several.
C8_PlayedTierRecommendsEarliestOfPast ==
    (~crashed /\ \A i \in 1..Len(plays) : ParseDate(plays[i].date) < now) =>
        \A p \in Recognized(plays), c \in Range(complexityLevels) :
            FullyPlayed(p, c)
                => /\ c \in DOMAIN recommendations[p]
                   /\ recommendations[p][c].spirit = EarliestPlayed(p, c)
                   /\ recommendations[p][c].reason = "Last played"

\* ------------------------------------------------------------------------ C9
\* C9: getRecommendations emits one suggestion per recognized participant per
\* tier: a recommendation exists for (participant, tier) exactly when the
\* catalog has a character of that tier, for every play log, also one whose
\* play dates are not earlier than the moment of the computation.
C9_OneRecommendationPerTier ==
    ~crashed =>
        /\ DOMAIN recommendations = Recognized(plays)
        /\ \A p \in Recognized(plays), c \in Range(complexityLevels) :
              c \in DOMAIN recommendations[p] <=> TierMembers(c) # <<>>

\* ----------------------------------------------------------------------- C10
\* The levels of 0..6 that have an entry in a's stat map and a recorded play.
PlayedLevels(a) ==
    {l \in 0..6 : l \in DOMAIN adversaryStats[a] /\ adversaryStats[a][l].plays > 0}

HighestPlayed(a) ==
    IF PlayedLevels(a) = {} THEN -1
    ELSE CHOOSE l \in PlayedLevels(a) : \A m \in PlayedLevels(a) : m <= l

\* C10: for every catalog adversary the suggested level is min(h + 1, 6), h
\* being the highest level of 0..6 that has an entry in the adversary's stat
\* map and a recorded play, and -1 when there is none; a level with no entry
\* in the stat map is never treated as played.
C10_SuggestedLevel ==
    ~crashed =>
        \A a \in CatalogAdversaries :
            /\ \E i \in 1..Len(adversaryRecommendations) :
                  adversaryRecommendations[i].adversary = a
            /\ \A i \in 1..Len(adversaryRecommendations) :
                  adversaryRecommendations[i].adversary = a
                      => adversaryRecommendations[i].level
                             = (IF HighestPlayed(a) + 1 <= 6 THEN HighestPlayed(a) + 1 ELSE 6)

\* Sweden was played at level 6 and is suggested at level 6 again; Prussia was
\* played only at level 2, which it does not declare, and is suggested at 0.
C10_Witness ==
    /\ ~crashed
    /\ \E i \in 1..Len(plays) : plays[i].adversary = "Prussia" /\ plays[i].level = <<2>>
    /\ \E i, j \in 1..Len(adversaryRecommendations) :
          /\ adversaryRecommendations[i].adversary = "Sweden"
          /\ adversaryStats["Sweden"][6].plays > 0
          /\ adversaryRecommendations[i].level = 6
          /\ adversaryRecommendations[j].adversary = "Prussia"
          /\ adversaryRecommendations[j].level = 0

\* ----------------------------------------------------------------------- C11
\* The catalog entry of the adversary a suggestion names.
CatalogEntry(a) == adversaries[CHOOSE i \in 1..Len(adversaries) : adversaries[i].Adversary = a]

DeclaresLevel(adv, l) == \E k \in 1..Len(adv.Levels) : adv.Levels[k].Level = l

\* C11: the difficulty of an adversary suggestion is the adversary's base
\* difficulty when the suggested level is 0, the declared difficulty of the
\* matching level entry when the suggested level >= 1 is declared, and the
\* base difficulty when the suggested level >= 1 is not declared.
C11_SuggestedDifficulty ==
    ~crashed =>
        \A i \in 1..Len(adversaryRecommendations) :
            LET r == adversaryRecommendations[i]
                adv == CatalogEntry(r.adversary)
            IN /\ r.level = 0 => r.difficulty = adv.BaseDifficulty
               /\ (r.level >= 1 /\ DeclaresLevel(adv, r.level))
                     => \E k \in 1..Len(adv.Levels) :
                           /\ adv.Levels[k].Level = r.level
                           /\ r.difficulty = adv.Levels[k].Difficulty
               /\ (r.level >= 1 /\ ~DeclaresLevel(adv, r.level))
                     => r.difficulty = adv.BaseDifficulty

\* One suggestion is for a declared level, with a difficulty other than the
\* base one, and another for a level >= 1 that its adversary does not declare.
C11_Witness ==
    /\ ~crashed
    /\ \E i, j \in 1..Len(adversaryRecommendations) :
          LET r == adversaryRecommendations[i]
              q == adversaryRecommendations[j]
          IN /\ r.level >= 1
             /\ DeclaresLevel(CatalogEntry(r.adversary), r.level)
             /\ r.difficulty # CatalogEntry(r.adversary).BaseDifficulty
             /\ q.level >= 1
             /\ ~DeclaresLevel(CatalogEntry(q.adversary), q.level)
             /\ q.difficulty = CatalogEntry(q.adversary).BaseDifficulty

\* ----------------------------------------------------------------------- C12
CatalogIndex(a) == CHOOSE i \in 1..Len(adversaries) : adversaries[i].Adversary = a

\* The levels of a's stat map, whatever their number, that have a recorded play.
PlayedAnyLevels(a) == {l \in DOMAIN adversaryStats[a] : adversaryStats[a][l].plays > 0}

\* The latest lastPlayed date over the levels L of a's stat map.
MostRecentOver(a, L) ==
    CHOOSE d \in {adversaryStats[a][l].lastPlayed : l \in L} :
        \A l \in L : adversaryStats[a][l].lastPlayed <= d

\* The list holds one suggestion per catalog adversary; those with no played
\* level among Levels(a) come first, in catalog order, and the others follow
\* in ascending order of their latest date over Levels(a).
RecommendationOrder(Levels(_)) ==
    /\ Len(adversaryRecommendations) = Len(adversaries)
    /\ \A i, j \in 1..Len(adversaryRecommendations) :
          i < j =>
              LET a == adversaryRecommendations[i].adversary
                  b == adversaryRecommendations[j].adversary
              IN /\ a # b
                 /\ ~(Levels(a) # {} /\ Levels(b) = {})
                 /\ (Levels(a) = {} /\ Levels(b) = {}) => CatalogIndex(a) < CatalogIndex(b)
                 /\ (Levels(a) # {} /\ Levels(b) # {})
                       => MostRecentOver(a, Levels(a)) <= MostRecentOver(b, Levels(b))

RowValue(row, p, k) ==
    IF p \in DOMAIN row.playerStats THEN row.playerStats[p][k] ELSE Null

SortsByPlayer(p, k) == sortConfig # <<>> /\ sortConfig[1].key = PlayerSortKey(p, k)

\* C13: under a sort key that names a participant's playCount or
\* lastPlayedDate, the projected rows are a permutation of the character-stat
\* rows, non-decreasing in that value (missing count 0, missing date lowest)
\* when the direction is ascending and non-increasing when it is descending.
C13_RowsOrderedByPlayerValue ==
    ~crashed =>
        \A p \in {"A", "E"}, k \in StatKeys :
            SortsByPlayer(p, k) =>
                /\ Len(sortedPlayStats) = Cardinality(DOMAIN playStats)
                /\ Range(sortedPlayStats) = {playStats[n] : n \in DOMAIN playStats}
                /\ \A i, j \in 1..Len(sortedPlayStats) :
                      i < j =>
                          IF sortConfig[1].direction = "asc"
                          THEN RowValue(sortedPlayStats[i], p, k)
                                   <= RowValue(sortedPlayStats[j], p, k)
                          ELSE RowValue(sortedPlayStats[i], p, k)
                                   >= RowValue(sortedPlayStats[j], p, k)

\* Three rows with A's counts 2, 0 and 1 in catalog order are shown in the
\* order 2, 1, 0 under A's playCount key, descending.
C13_Witness ==
    /\ ~crashed
    /\ SortsByPlayer("A", "plays")
    /\ sortConfig[1].direction = "desc"
    /\ Len(spirits) = 3
    /\ Len(sortedPlayStats) = 3
    /\ playStats[spirits[1].spirit].playerStats["A"].plays = 2
    /\ playStats[spirits[2].spirit].playerStats["A"].plays = 0
    /\ sortedPlayStats[2].playerStats["A"].plays = 1
    /\ sortedPlayStats[3].playerStats["A"].plays = 0

\* ----------------------------------------------------------------------- C14
\* C14: in every sequence of handleSort calls from no sort selected, a call
\* that selects a key other than the current one sets the direction ascending,
\* and a call that selects the current key flips ascending to descending and
\* descending to ascending.
C14_SortDirectionToggles ==
    [][sortConfig' # sortConfig =>
          /\ sortConfig' # <<>>
          /\ (sortConfig = <<>> \/ sortConfig[1].key # sortConfig'[1].key)
                => sortConfig'[1].direction = "asc"
          /\ (sortConfig # <<>> /\ sortConfig[1].key = sortConfig'[1].key)
                => sortConfig'[1].direction
                       = (IF sortConfig[1].direction = "asc" THEN "desc" ELSE "asc")]_vars

\* The current key was selected again and the direction is descending.
C14_Witness == ~crashed /\ sortConfig # <<>> /\ sortConfig[1].direction = "desc"

\* ----------------------------------------------------------------------- C15
\* The greatest playCount of participant p over the catalog characters.
GreatestCount(p) ==
    IF DOMAIN playStats = {} THEN 0
    ELSE LET counts == {playStats[n].playerStats[p].plays : n \in DOMAIN playStats}
         IN CHOOSE m \in counts : \A c \in counts : c <= m

\* The first character in catalog order with playCount m for participant p.
FirstWithCount(p, m) ==
    spirits[CHOOSE i \in 1..Len(spirits) :
               /\ playStats[spirits[i].spirit].playerStats[p].plays = m
               /\ \A j \in 1..(i - 1) :
                     playStats[spirits[j].spirit].playerStats[p].plays # m].spirit

\* C15: for every recognized participant the favorite is the character with
\* the greatest playCount for that participant, the first in catalog order
\* among those that share it; with no play of any catalog character the
\* favorite is absent and is not shown.
C15_FavoriteIsFirstGreatest ==
    ~crashed =>
        /\ DOMAIN summary = Recognized(plays)
        /\ \A p \in Recognized(plays) :
              IF GreatestCount(p) > 0
              THEN /\ summary[p].showsFavorite
                   /\ summary[p].mostPlayedSpirit.plays = GreatestCount(p)
                   /\ summary[p].mostPlayedSpirit.spirit = FirstWithCount(p, GreatestCount(p))
              ELSE /\ ~summary[p].showsFavorite
                   /\ summary[p].mostPlayedSpirit = [spirit |-> "", plays |-> 0]

\* A played Shadows and River as often as each other; Shadows comes first in
\* the catalog and is the favorite.
C15_Witness ==
    /\ ~crashed
    /\ "A" \in DOMAIN summary
    /\ Len(spirits) = 2
    /\ spirits[1].spirit = "Shadows"
    /\ playStats["Shadows"].playerStats["A"].plays > 0
    /\ playStats["Shadows"].playerStats["A"].plays = playStats["River"].playerStats["A"].plays
    /\ summary["A"].showsFavorite
    /\ summary["A"].mostPlayedSpirit.spirit = "Shadows"

\* ----------------------------------------------------------------------- C16
RECURSIVE SumOver(_, _)
SumOver(S, f) ==
    IF S = {} THEN 0
    ELSE LET x == CHOOSE y \in S : TRUE IN f[x] + SumOver(S \ {x}, f)

\* The characters that the log pairs with some participant.
LogSpirits(ps) ==
    UNION {{ps[i].players[k].spirit : k \in 1..Len(ps[i].players)} : i \in 1..Len(ps)}

\* C16: for every recognized participant the summary's totalPlays is the sum
\* of the participant's playCount over the catalog characters, and that is the
\* number of the participant's (participant, character) pairs in the play log
\* whose character is in the catalog.
C16_TotalIsSumOfCounts ==
    ~crashed =>
        \A p \in Recognized(plays) :
            LET Count == [c \in CatalogSpirits |-> playStats[c].playerStats[p].plays]
                Pairs == [c \in CatalogSpirits |-> Cardinality(PairPlaces(plays, p, c))]
            IN /\ summary[p].playerTotalPlays = SumOver(CatalogSpirits, Count)
               /\ summary[p].playerTotalPlays = SumOver(CatalogSpirits, Pairs)

\* A's total is 1, for a play of Shadows, while the log also pairs A with a
\* character that the catalog does not hold.
C16_Witness ==
    /\ ~crashed
    /\ "A" \in DOMAIN summary
    /\ summary["A"].playerTotalPlays = 1
    /\ PairPlaces(plays, "A", "Shadows") # {}
    /\ \E c \in LogSpirits(plays) \ CatalogSpirits : PairPlaces(plays, "A", c) # {}

\* ----------------------------------------------------------------------- C17
\* The character recommendations of a second computation over the displayed
\* state, at moment t and with the random choices draw.
Recomputed(t, draw) ==
    getRecommendations(spirits, uniquePlayers(plays), playStats, t, draw)

\* C17: a second computation over the same play log and catalogs, at whatever
\* moment, yields the same character stats, adversary stats, adversary
\* recommendations and summaries, and the same character recommendation for
\* every fully played tier; only the random pick of a tier with unplayed
\* members may differ.
C17_RecomputationAgrees ==
    ~crashed =>
        /\ buildPlayStats(plays, spirits).stats = playStats
        /\ buildAdversaryStats(plays, adversaries) = adversaryStats
        /\ getAdversaryRecommendation(adversaries, adversaryStats) = adversaryRecommendations
        /\ Summary(spirits, uniquePlayers(plays), playStats) = summary
        /\ \A t \in Moments :
              \A draw \in RandomIndexes(spirits, uniquePlayers(plays), playStats) :
                  \A p \in Recognized(plays), c \in Range(complexityLevels) :
                      FullyPlayed(p, c) =>
                          /\ c \in DOMAIN Recomputed(t, draw)[p] <=> c \in DOMAIN recommendations[p]
                          /\ c \in DOMAIN recommendations[p] /\ c \in DOMAIN Recomputed(t, draw)[p]
                                => Recomputed(t, draw)[p][c] = recommendations[p][c]

\* ----------------------------------------------------------------------- C18
\* The fetch of f has not resolved: it is pending or it failed.
NotLoaded(f) == fetched[f] # "done"

\* What is displayed for the inputs that are not loaded is empty or zero.
EmptyForNotLoaded ==
    /\ NotLoaded("spirits") =>
          /\ DOMAIN playStats = {}
          /\ sortedPlayStats = <<>>
          /\ \A p \in DOMAIN recommendations : DOMAIN recommendations[p] = {}
          /\ \A p \in DOMAIN summary :
                /\ summary[p].playerTotalPlays = 0
                /\ ~summary[p].showsFavorite
    /\ NotLoaded("plays") =>
          /\ DOMAIN recommendations = {}
          /\ DOMAIN summary = {}
          /\ \A n \in DOMAIN playStats : DOMAIN playStats[n].playerStats = {}
          /\ \A a \in DOMAIN adversaryStats : \A l \in DOMAIN adversaryStats[a] :
                /\ adversaryStats[a][l].plays = 0
                /\ adversaryStats[a][l].lastPlayed = Null
          /\ \A i \in 1..Len(adversaryRecommendations) :
                /\ adversaryRecommendations[i].level = 0
                /\ adversaryRecommendations[i].lastPlayed = Null
    /\ NotLoaded("adversaries") =>
          /\ DOMAIN adversaryStats = {}
          /\ adversaryRecommendations = <<>>

\* C18: in every order in which the three fetches complete, and when any of
\* them fails and stays empty, no recomputation reads a stat entry that does
\* not exist (a read of a missing entry's fields throws, which ends the
\* render), and what it yields for the inputs not loaded is empty or zero.
C18_PartialLoadsAreSafe == ~crashed /\ EmptyForNotLoaded

\* The same for the recomputations that did not throw.
C18_PartialLoadsAreEmptyUnlessThrown == ~crashed => EmptyForNotLoaded

====
